---- MODULE Spec2Model ----
(***************************************************************************)
(* A model of src/keylogger.py: the Keylogger object (log_data, running,   *)
(* lock), the log file, the thread that calls start()/stop() and the       *)
(* listener thread of pynput that runs the on_press/on_release callbacks.  *)
(*                                                                         *)
(* Strings are sequences of one-character strings, so that upper() and     *)
(* concatenation are computed.  The pending buffer and the file are        *)
(* sequences of entries; an entry carries, besides its timestamp and text, *)
(* the number of the key-press event it was made for (id), which is how    *)
(* the properties tell two equal lines apart.                              *)
(***************************************************************************)
EXTENDS Naturals, Sequences, FiniteSets

\* ------------------------------------------------------------------ bounds
MaxEvents == 2      \* key-press events delivered in one run
MaxFail == 2        \* failures the operating system produces in one run
MaxClock == 1       \* the last second the wall clock reaches in one run

\* ----------------------------------------------------------------- strings
Lower == <<"a","b","c","d","e","f","g","h","i","j","k","l","m",
           "n","o","p","q","r","s","t","u","v","w","x","y","z">>
Capital == <<"A","B","C","D","E","F","G","H","I","J","K","L","M",
             "N","O","P","Q","R","S","T","U","V","W","X","Y","Z">>

\* str.upper() on one character: a lower-case letter becomes its capital,
\* every other character is kept.
UpperChar(c) ==
  IF \E i \in 1..Len(Lower) : Lower[i] = c
  THEN Capital[CHOOSE i \in 1..Len(Lower) : Lower[i] = c]
  ELSE c

\* str.upper()
upper(s) == [i \in 1..Len(s) |-> UpperChar(s[i])]

\* Python's None, kept apart from every string.
None == <<"None">>

\* ------------------------------------------------------------------- keys
\* What pynput hands to a callback: a KeyCode (attribute char, which is None
\* for a key code without a character), a member of the enum Key (attribute
\* name, no attribute char) or None for a key it does not know.
\* The members of Key are taken as distinct, as they are on Windows; where
\* pynput gives shift_l, ctrl_l and alt_l the value of shift, ctrl and alt
\* they are other names of these members, and shift_r stays a member of its
\* own everywhere.
KeyCode(c) == [kind |-> "KeyCode", char |-> c]
Key(n) == [kind |-> "Key", name |-> n]
UnknownKey == [kind |-> "None"]

Key_space == Key(<<"s","p","a","c","e">>)
Key_enter == Key(<<"e","n","t","e","r">>)
Key_tab == Key(<<"t","a","b">>)
Key_backspace == Key(<<"b","a","c","k","s","p","a","c","e">>)
Key_shift == Key(<<"s","h","i","f","t">>)
Key_shift_l == Key(<<"s","h","i","f","t","_","l">>)
Key_shift_r == Key(<<"s","h","i","f","t","_","r">>)
Key_ctrl == Key(<<"c","t","r","l">>)
Key_ctrl_l == Key(<<"c","t","r","l","_","l">>)
Key_ctrl_r == Key(<<"c","t","r","l","_","r">>)
Key_alt == Key(<<"a","l","t">>)
Key_alt_l == Key(<<"a","l","t","_","l">>)
Key_alt_r == Key(<<"a","l","t","_","r">>)
Key_caps_lock == Key(<<"c","a","p","s","_","l","o","c","k">>)
Key_esc == Key(<<"e","s","c">>)
Key_up == Key(<<"u","p">>)
Key_down == Key(<<"d","o","w","n">>)
Key_left == Key(<<"l","e","f","t">>)
Key_right == Key(<<"r","i","g","h","t">>)
Key_delete == Key(<<"d","e","l","e","t","e">>)
Key_menu == Key(<<"m","e","n","u">>)
Key_f1 == Key(<<"f","1">>)

SymbolicKeys ==
  { Key_space, Key_enter, Key_tab, Key_backspace, Key_shift, Key_shift_l,
    Key_shift_r, Key_ctrl, Key_ctrl_l, Key_ctrl_r, Key_alt, Key_alt_l,
    Key_alt_r, Key_caps_lock, Key_esc, Key_up, Key_down, Key_left, Key_right,
    Key_delete, Key_menu, Key_f1 }

\* Key codes that carry a character: the letters, a blank, a digit.
Chars ==
  { Lower[i] : i \in 1..Len(Lower) } \cup { Capital[i] : i \in 1..Len(Capital) }
    \cup {" ", "1"}

CharKeys == { KeyCode(<<c>>) : c \in Chars }

AllKeys == SymbolicKeys \cup CharKeys \cup { KeyCode(None), UnknownKey }

\* format_key: [raised |-> TRUE] when the call raises, else the value it
\* returns.  key.char exists on a KeyCode only; the except branch compares
\* the key with members of Key and ends in key.name, which None lacks.
format_key(key) ==
  IF key.kind = "KeyCode" THEN [raised |-> FALSE, val |-> key.char]
  ELSE IF key = Key_space THEN [raised |-> FALSE, val |-> <<" ">>]
  ELSE IF key = Key_enter THEN [raised |-> FALSE, val |-> <<"\n">>]
  ELSE IF key = Key_tab THEN [raised |-> FALSE, val |-> <<"\t">>]
  ELSE IF key = Key_backspace
    THEN [raised |-> FALSE, val |-> <<"[","B","A","C","K","S","P","A","C","E","]">>]
  ELSE IF key = Key_shift
    THEN [raised |-> FALSE, val |-> <<"[","S","H","I","F","T","]">>]
  ELSE IF key = Key_ctrl_l \/ key = Key_ctrl_r
    THEN [raised |-> FALSE, val |-> <<"[","C","T","R","L","]">>]
  ELSE IF key = Key_alt_l \/ key = Key_alt_r
    THEN [raised |-> FALSE, val |-> <<"[","A","L","T","]">>]
  ELSE IF key = Key_caps_lock
    THEN [raised |-> FALSE, val |-> <<"[","C","A","P","S","]">>]
  ELSE IF key = Key_esc THEN [raised |-> FALSE, val |-> <<"[","E","S","C","]">>]
  ELSE IF key = Key_up THEN [raised |-> FALSE, val |-> <<"[","U","P","]">>]
  ELSE IF key = Key_down THEN [raised |-> FALSE, val |-> <<"[","D","O","W","N","]">>]
  ELSE IF key = Key_left THEN [raised |-> FALSE, val |-> <<"[","L","E","F","T","]">>]
  ELSE IF key = Key_right
    THEN [raised |-> FALSE, val |-> <<"[","R","I","G","H","T","]">>]
  ELSE IF key = Key_delete
    THEN [raised |-> FALSE, val |-> <<"[","D","E","L","E","T","E","]">>]
  ELSE IF key.kind = "Key"
    THEN [raised |-> FALSE, val |-> <<"[">> \o upper(key.name) \o <<"]">>]
  ELSE [raised |-> TRUE]

\* What an f-string makes of a value: None is written "None".
Str(v) == IF v = None THEN <<"N","o","n","e">> ELSE v

\* The entry on_press builds, f"[{timestamp}] {formatted_key}\n"; id is the
\* number of the event.
Entry(n, timestamp, formatted_key) ==
  [id |-> n, ts |-> timestamp, text |-> Str(formatted_key) \o <<"\n">>]

\* ------------------------------------------------------------------ state
VARIABLES
  log_data,   \* self.log_data: the pending buffer, a sequence of entries
  running,    \* self.running
  lock,       \* self.lock: "free" or the thread that holds it
  file,       \* the content of the file at self.log_file
  stdout,     \* the kinds of lines printed to standard output so far
  stderr,     \* what was printed to sys.stderr, one tag per print
  pc,         \* where the main thread and the listener thread are
  lst,        \* the Listener: "none", "alive", "stopping", "stopped", "error"
  ltmp,       \* on_press: the value of log_data + entry before it is stored
  wbuf,       \* flush_to_file: the text given to f.write, per thread
  now,        \* the last reading of the wall clock, in seconds
  nev,        \* number of key-press events delivered so far
  received,   \* the entries on_press has appended so far, in arrival order
  written,    \* the entries each thread has written to the file so far
  fails,      \* number of failures of the operating system so far
  fmt_key,    \* the key of a call of format_key made on its own
  fmt_out     \* what that call came to: <<>> before it ends, then <<outcome>>

vars == <<log_data, running, lock, file, stdout, stderr, pc, lst, ltmp, wbuf,
          now, nev, received, written, fails, fmt_key, fmt_out>>

Threads == {"main", "listener"}

\* The keys the runs of the session press and release.
PressKeys == { KeyCode(<<"a">>), UnknownKey }
ReleaseKeys == { KeyCode(<<"a">>), Key_esc, UnknownKey }

\* Keylogger.__init__, with an empty log file and no listener yet.
Init ==
  /\ log_data = <<>>
  /\ running = FALSE
  /\ lock = "free"
  /\ file = <<>>
  /\ stdout = {}
  /\ stderr = <<>>
  /\ pc = [t \in Threads |-> IF t = "main" THEN "ready" ELSE "idle"]
  /\ lst = "none"
  /\ ltmp = <<>>
  /\ wbuf = [t \in Threads |-> <<>>]
  /\ now = 0
  /\ nev = 0
  /\ received = <<>>
  /\ written = [t \in Threads |-> <<>>]
  /\ fails = 0
  /\ fmt_key = UnknownKey
  /\ fmt_out = <<>>

\* -------------------------------------------------------------- flush_to_file
\* Where a thread goes on when flush_to_file returns: on_press leaves its
\* with-block, stop prints its banner.
AfterFlush(t) == IF t = "main" THEN "banner" ELSE "release"

\* open(self.log_file, "a") succeeds and f.write(self.log_data) hands the
\* buffer to the file object, which keeps it until the file is closed.
FlushOpenWrite(t) ==
  /\ pc[t] = "open"
  /\ wbuf' = [wbuf EXCEPT ![t] = log_data]
  /\ pc' = [pc EXCEPT ![t] = "close"]
  /\ UNCHANGED <<log_data, running, lock, file, stdout, stderr, lst, ltmp,
                 now, nev, received, written, fails, fmt_key, fmt_out>>

\* FlushOpenFail with the buffer cleared although nothing was written.
FlushOpenFailClears(t) ==
  /\ pc[t] = "open"
  /\ fails < MaxFail
  /\ fails' = fails + 1
  /\ stderr' = Append(stderr, "flush")
  /\ log_data' = <<>>
  /\ pc' = [pc EXCEPT ![t] = AfterFlush(t)]
  /\ UNCHANGED <<running, lock, file, stdout, lst, ltmp, wbuf, now, nev,
                 received, written, fmt_key, fmt_out>>

\* open() raises (permission denied, path unwritable): nothing is written,
\* the except branch reports it and the buffer is kept.
FlushOpenFail(t) ==
  /\ pc[t] = "open"
  /\ fails < MaxFail
  /\ fails' = fails + 1
  /\ stderr' = Append(stderr, "flush")
  /\ pc' = [pc EXCEPT ![t] = AfterFlush(t)]
  /\ UNCHANGED <<log_data, running, lock, file, stdout, lst, ltmp, wbuf, now,
                 nev, received, written, fmt_key, fmt_out>>

\* Leaving the with-block closes the file, which appends the text to it.
FlushCloseOk(t) ==
  /\ pc[t] = "close"
  /\ file' = file \o wbuf[t]
  /\ written' = [written EXCEPT ![t] = @ \o wbuf[t]]
  /\ wbuf' = [wbuf EXCEPT ![t] = <<>>]
  /\ pc' = [pc EXCEPT ![t] = "clear"]
  /\ UNCHANGED <<log_data, running, lock, stdout, stderr, lst, ltmp, now, nev,
                 received, fails, fmt_key, fmt_out>>

\* The write behind close() raises (disk full, I/O error) after n entries of
\* the text reached the file; the except branch reports it, the buffer is kept.
FlushCloseFail(t, n) ==
  /\ pc[t] = "close"
  /\ fails < MaxFail
  /\ n \in 0..Len(wbuf[t])
  /\ fails' = fails + 1
  /\ file' = file \o SubSeq(wbuf[t], 1, n)
  /\ written' = [written EXCEPT ![t] = @ \o SubSeq(wbuf[t], 1, n)]
  /\ wbuf' = [wbuf EXCEPT ![t] = <<>>]
  /\ stderr' = Append(stderr, "flush")
  /\ pc' = [pc EXCEPT ![t] = AfterFlush(t)]
  /\ UNCHANGED <<log_data, running, lock, stdout, lst, ltmp, now, nev,
                 received, fmt_key, fmt_out>>

\* FlushClear with the assignment left out.
FlushClearKeeps(t) ==
  /\ pc[t] = "clear"
  /\ log_data' = log_data
  /\ pc' = [pc EXCEPT ![t] = AfterFlush(t)]
  /\ UNCHANGED <<running, lock, file, stdout, stderr, lst, ltmp, wbuf, now,
                 nev, received, written, fails, fmt_key, fmt_out>>

\* self.log_data = ""
FlushClear(t) ==
  /\ pc[t] = "clear"
  /\ log_data' = <<>>
  /\ pc' = [pc EXCEPT ![t] = AfterFlush(t)]
  /\ UNCHANGED <<running, lock, file, stdout, stderr, lst, ltmp, wbuf, now,
                 nev, received, written, fails, fmt_key, fmt_out>>

flush_to_file(t) ==
  \/ FlushOpenWrite(t)
  \/ FlushOpenFail(t)
  \/ FlushCloseOk(t)
  \/ \E n \in 0..MaxEvents : FlushCloseFail(t, n)
  \/ FlushClear(t)

\* ------------------------------------------------------------------ on_press
\* The listener thread calls on_press(key): get_timestamp reads the clock
\* (a reading not before the last one), format_key makes the text, the lock
\* is taken and log_data + entry is evaluated.  A key that format_key cannot
\* handle ends the listener thread with the exception.
PressBegin(key, timestamp) ==
  /\ lst = "alive"
  /\ pc["listener"] = "idle"
  /\ lock = "free"
  /\ nev < MaxEvents
  /\ timestamp >= now
  /\ now' = timestamp
  /\ nev' = nev + 1
  /\ LET formatted_key == format_key(key)
     IN IF formatted_key.raised
        THEN /\ lst' = "error"
             /\ UNCHANGED <<lock, ltmp, pc>>
        ELSE /\ lock' = "listener"
             /\ ltmp' = log_data \o <<Entry(nev + 1, timestamp, formatted_key.val)>>
             /\ pc' = [pc EXCEPT !["listener"] = "store"]
             /\ UNCHANGED lst
  /\ UNCHANGED <<log_data, running, file, stdout, stderr, wbuf, received,
                 written, fails, fmt_key, fmt_out>>

\* self.log_data += entry stores the sum; flush_to_file is called next.
PressStore ==
  /\ pc["listener"] = "store"
  /\ log_data' = ltmp
  /\ received' = Append(received, ltmp[Len(ltmp)])
  /\ ltmp' = <<>>
  /\ pc' = [pc EXCEPT !["listener"] = "open"]
  /\ UNCHANGED <<running, lock, file, stdout, stderr, lst, wbuf, now, nev,
                 written, fails, fmt_key, fmt_out>>

\* The with-block of on_press ends: the lock is released and the callback
\* returns.  A listener that was told to stop meanwhile ends here.
PressEnd ==
  /\ pc["listener"] = "release"
  /\ lock' = "free"
  /\ pc' = [pc EXCEPT !["listener"] = "idle"]
  /\ lst' = IF lst = "stopping" THEN "stopped" ELSE lst
  /\ UNCHANGED <<log_data, running, file, stdout, stderr, ltmp, wbuf, now,
                 nev, received, written, fails, fmt_key, fmt_out>>

on_press ==
  \/ \E key \in PressKeys, timestamp \in 0..MaxClock : PressBegin(key, timestamp)
  \/ PressStore
  \/ flush_to_file("listener")
  \/ PressEnd

\* ---------------------------------------------------------------- on_release

\* on_release returning False for every key.
on_releaseAnyKey(key) ==
  /\ lst = "alive"
  /\ pc["listener"] = "idle"
  /\ lst' = "stopped"
  /\ UNCHANGED <<log_data, running, lock, file, stdout, stderr, pc, ltmp,
                 wbuf, now, nev, received, written, fails, fmt_key, fmt_out>>

\* on_release(key) returns False for Key.esc, which stops the listener, and
\* None for every other key.
on_release(key) ==
  /\ lst = "alive"
  /\ pc["listener"] = "idle"
  /\ lst' = IF key = Key_esc THEN "stopped" ELSE lst
  /\ UNCHANGED <<log_data, running, lock, file, stdout, stderr, pc, ltmp,
                 wbuf, now, nev, received, written, fails, fmt_key, fmt_out>>

\* --------------------------------------------------------------------- start

\* start() up to the try statement: the flag is set and the banner printed.
StartBegin ==
  /\ pc["main"] = "ready"
  /\ running' = TRUE
  /\ stdout' = stdout \cup {"started"}
  /\ pc' = [pc EXCEPT !["main"] = "init"]
  /\ UNCHANGED <<log_data, lock, file, stderr, lst, ltmp, wbuf, now, nev,
                 received, written, fails, fmt_key, fmt_out>>

\* with Listener(...) as listener: the listener thread is started and the
\* main thread waits in listener.join().  The thread of an earlier listener
\* has ended by then.
ListenerInitOk ==
  /\ pc["main"] = "init"
  /\ pc["listener"] = "idle"
  /\ lst' = "alive"
  /\ pc' = [pc EXCEPT !["main"] = "join"]
  /\ UNCHANGED <<log_data, running, lock, file, stdout, stderr, ltmp, wbuf,
                 now, nev, received, written, fails, fmt_key, fmt_out>>

\* Listener(...) raises: except Exception prints it, finally calls stop().
ListenerInitFail ==
  /\ pc["main"] = "init"
  /\ fails < MaxFail
  /\ fails' = fails + 1
  /\ stderr' = Append(stderr, "error")
  /\ pc' = [pc EXCEPT !["main"] = "stop"]
  /\ UNCHANGED <<log_data, running, lock, file, stdout, lst, ltmp, wbuf, now,
                 nev, received, written, fmt_key, fmt_out>>

\* listener.join() returns because the listener has stopped; finally calls
\* stop().
JoinReturn ==
  /\ pc["main"] = "join"
  /\ lst = "stopped"
  /\ pc' = [pc EXCEPT !["main"] = "stop"]
  /\ UNCHANGED <<log_data, running, lock, file, stdout, stderr, lst, ltmp,
                 wbuf, now, nev, received, written, fails, fmt_key, fmt_out>>

\* listener.join() re-raises the exception that ended the listener thread:
\* except Exception prints it, finally calls stop().
JoinRaise ==
  /\ pc["main"] = "join"
  /\ lst = "error"
  /\ stderr' = Append(stderr, "error")
  /\ pc' = [pc EXCEPT !["main"] = "stop"]
  /\ UNCHANGED <<log_data, running, lock, file, stdout, lst, ltmp, wbuf, now,
                 nev, received, written, fails, fmt_key, fmt_out>>

\* Interrupt without the finally clause: start() returns without stop().
InterruptNoFinally ==
  /\ pc["main"] = "join"
  /\ lst' = IF lst = "alive"
            THEN IF pc["listener"] = "idle" THEN "stopped" ELSE "stopping"
            ELSE lst
  /\ stdout' = stdout \cup {"interrupted"}
  /\ pc' = [pc EXCEPT !["main"] = "ready"]
  /\ UNCHANGED <<log_data, running, lock, file, stderr, ltmp, wbuf, now, nev,
                 received, written, fails, fmt_key, fmt_out>>

\* KeyboardInterrupt during listener.join(): leaving the with-block tells the
\* listener to stop, without waiting for a callback that is still running;
\* except KeyboardInterrupt prints, finally calls stop().
Interrupt ==
  /\ pc["main"] = "join"
  /\ lst' = IF lst = "alive"
            THEN IF pc["listener"] = "idle" THEN "stopped" ELSE "stopping"
            ELSE lst
  /\ stdout' = stdout \cup {"interrupted"}
  /\ pc' = [pc EXCEPT !["main"] = "stop"]
  /\ UNCHANGED <<log_data, running, lock, file, stderr, ltmp, wbuf, now, nev,
                 received, written, fails, fmt_key, fmt_out>>

start ==
  \/ StartBegin
  \/ ListenerInitOk
  \/ ListenerInitFail
  \/ JoinReturn
  \/ JoinRaise
  \/ Interrupt

\* ---------------------------------------------------------------------- stop

\* stop() called by the owner of the object, outside start().
StopCall ==
  /\ pc["main"] = "ready"
  /\ pc' = [pc EXCEPT !["main"] = "stop"]
  /\ UNCHANGED <<log_data, running, lock, file, stdout, stderr, lst, ltmp,
                 wbuf, now, nev, received, written, fails, fmt_key, fmt_out>>

\* self.running = False; if self.log_data: self.flush_to_file()
StopEnter ==
  /\ pc["main"] = "stop"
  /\ running' = FALSE
  /\ pc' = [pc EXCEPT !["main"] = IF log_data # <<>> THEN "open" ELSE "banner"]
  /\ UNCHANGED <<log_data, lock, file, stdout, stderr, lst, ltmp, wbuf, now,
                 nev, received, written, fails, fmt_key, fmt_out>>

\* The banner of stop(); stop() returns, and so does a start() that called it.
StopBanner ==
  /\ pc["main"] = "banner"
  /\ stdout' = stdout \cup {"stopped"}
  /\ pc' = [pc EXCEPT !["main"] = "ready"]
  /\ UNCHANGED <<log_data, running, lock, file, stderr, lst, ltmp, wbuf, now,
                 nev, received, written, fails, fmt_key, fmt_out>>

stop ==
  \/ StopCall
  \/ StopEnter
  \/ flush_to_file("main")
  \/ StopBanner

\* ------------------------------------------------------------- specification
Next ==
  \/ start
  \/ on_press
  \/ \E key \in ReleaseKeys : on_release(key)
  \/ stop

\* The program: both threads run, their steps interleave.
Spec == Init /\ [][Next]_vars

\* A callback is running only while the main thread waits in listener.join().
OneAtATime == pc["listener"] = "idle" \/ pc["main"] = "join"

\* The runs in which the operations are executed one at a time: the main
\* thread is never interrupted while a callback is running.
SeqNext == Next /\ OneAtATime'

SeqSpec == Init /\ [][SeqNext]_vars

\* The main thread keeps running: a listener.join() that can return does.
FairSpec == Spec /\ WF_vars(JoinReturn)

\* ----------------------------------------------------------- format_key alone
\* self.format_key(key) called on a constructed Keylogger: the call ends by
\* returning a value or by raising, and touches nothing of the object.
FormatCall ==
  /\ fmt_out = <<>>
  /\ fmt_out' = <<format_key(fmt_key)>>
  /\ UNCHANGED <<log_data, running, lock, file, stdout, stderr, pc, lst, ltmp,
                 wbuf, now, nev, received, written, fails, fmt_key>>

\* A constructed Keylogger and any key as the argument of the call.
FmtInit ==
  /\ fmt_key \in AllKeys
  /\ fmt_out = <<>>
  /\ log_data = <<>>
  /\ running = FALSE
  /\ lock = "free"
  /\ file = <<>>
  /\ stdout = {}
  /\ stderr = <<>>
  /\ pc = [t \in Threads |-> IF t = "main" THEN "ready" ELSE "idle"]
  /\ lst = "none"
  /\ ltmp = <<>>
  /\ wbuf = [t \in Threads |-> <<>>]
  /\ now = 0
  /\ nev = 0
  /\ received = <<>>
  /\ written = [t \in Threads |-> <<>>]
  /\ fails = 0

FmtNext == FormatCall

FmtSpec == FmtInit /\ [][FmtNext]_vars

\* ------------------------------------------------------------------ claims
Last(s) == s[Len(s)]
IsPrefix(s, t) == Len(s) <= Len(t) /\ SubSeq(t, 1, Len(s)) = s
Occurs(e, s) == \E i \in 1..Len(s) : s[i] = e
NoRepeat(s) == \A i, j \in 1..Len(s) : s[i] = s[j] => i = j
InFlush(t) == pc[t] \in {"open", "close", "clear"}

\* stop() has returned and no callback is running or can start.
SessionStopped ==
  /\ pc["main"] = "ready"
  /\ "stopped" \in stdout
  /\ pc["listener"] = "idle"
  /\ lst # "alive"

\* C1 (Order preservation): once the session has stopped after N key-press
\* events delivered one at a time, the file holds exactly N entries, the i-th
\* being the entry of the i-th event.
C1_OrderPreservation ==
  SessionStopped =>
    /\ Len(file) = nev
    /\ \A i \in 1..Len(file) : file[i].id = i

\* C2 (Flush failure keeps the data): a flush of on_press that fails is
\* reported on stderr, leaves log_data as it was and lets the callback go on
\* to its end with the listener alive; the next callback puts its entry after
\* the retained ones and its flush appends the whole buffer to the file.
C2_FailedFlushStep ==
  (pc["listener"] \in {"open", "close"} /\ pc'["listener"] = "release") =>
    /\ stderr' = Append(stderr, "flush")
    /\ log_data' = log_data
    /\ lst' = lst
    /\ lst # "error"

C2_NextPressStep ==
  pc["main"] = "join" =>
    /\ (pc["listener"] = "store" /\ pc'["listener"] = "open") =>
         (log_data' = log_data \o <<Last(received')>> /\ Len(received') = Len(received) + 1)
    /\ (pc["listener"] = "open" /\ pc'["listener"] = "close") =>
         wbuf'["listener"] = log_data
    /\ (pc["listener"] = "close" /\ pc'["listener"] = "clear") =>
         (file' = file \o log_data /\ log_data' = log_data)

C3_Step ==
  /\ \A t \in Threads :
       (pc[t] = "clear" /\ pc'[t] = AfterFlush(t)) =>
         \A i \in 1..Len(received') : Occurs(received'[i], file')
  /\ IsPrefix(file, file')

C3_CrashSafety == [][C3_Step]_vars

\* C4 (Lock discipline): a thread that executes flush_to_file holds the lock.
C4_LockDiscipline == \A t \in Threads : InFlush(t) => lock = t

\* C5 (Escape terminates): on_release(Key.esc) stops the listener and the
\* main thread then leaves listener.join(); on_release of any other key
\* leaves the listener alive and the main thread in join; no on_release
\* changes log_data or the file.
C5_ReleaseStep ==
  \A key \in ReleaseKeys :
    on_release(key) =>
      /\ key = Key_esc => lst' = "stopped"
      /\ key # Key_esc => (lst' = "alive" /\ pc'["main"] = "join")
      /\ log_data' = log_data
      /\ file' = file

C5_EscapeTerminates ==
  /\ [][C5_ReleaseStep]_vars
  /\ (pc["main"] = "join" /\ lst = "stopped") ~> (pc["main"] = "stop")

\* The listener was stopped by Escape, not by an interrupt, and the main
\* thread has left join.
C5_Witness ==
  /\ pc["main"] = "stop"
  /\ lst = "stopped"
  /\ "interrupted" \notin stdout
  /\ nev > 0

\* C6 (Cleanup on every exit path): the main thread leaves the listener (its
\* creation or its join) only into stop(); stop() clears running and, with a
\* non-empty buffer, calls flush_to_file; start() returns only from the end
\* of stop(), not running, and with an empty buffer when nothing failed and
\* no callback is still running.
C6_Step ==
  /\ (pc["main"] \in {"init", "join"} /\ pc'["main"] \notin {"init", "join"}) =>
       pc'["main"] = "stop"
  /\ (pc["main"] = "stop" /\ pc'["main"] # "stop") =>
       /\ ~running'
       /\ pc'["main"] = IF log_data # <<>> THEN "open" ELSE "banner"
  /\ (pc["main"] # "ready" /\ pc'["main"] = "ready") =>
       /\ pc["main"] = "banner"
       /\ ~running'
       /\ (fails = 0 /\ pc["listener"] = "idle") => log_data' = <<>>

C6_CleanupOnEveryExit == [][C6_Step]_vars

\* start() has returned after an interrupt and stop() has written the entry
\* that was pending.
C6_Witness ==
  /\ pc["main"] = "ready"
  /\ ~running
  /\ "interrupted" \in stdout
  /\ "stopped" \in stdout
  /\ written["main"] # <<>>
  /\ log_data = <<>>

\* C7 (stop() is idempotent): the calls of stop() together write no entry to
\* the file twice, and a stop() that finds the buffer empty (as a stop()
\* whose flush succeeded leaves it) adds nothing to the file, leaves the
\* buffer empty and the session not running.
C7_StopStep ==
  (pc["main"] = "stop" /\ log_data = <<>> /\ pc'["main"] # "stop") =>
    /\ pc'["main"] = "banner"
    /\ file' = file
    /\ log_data' = <<>>
    /\ ~running'

C7_StopIdempotent == [](NoRepeat(written["main"])) /\ [][C7_StopStep]_vars

\* C8 (Flush-then-empty and idempotent flush): a flush that succeeds leaves
\* log_data empty; a flush that finds log_data empty hands an empty text to
\* the file, adds nothing to the file and leaves log_data empty; and every
\* flush goes on to its end or to its caller, without ending the thread.
C8_Step ==
  \A t \in Threads :
    /\ (pc[t] = "clear" /\ pc'[t] # "clear") => log_data' = <<>>
    /\ (pc[t] = "open" /\ log_data = <<>> /\ pc'[t] # "open") =>
         /\ file' = file
         /\ log_data' = <<>>
         /\ pc'[t] = "close" => wbuf'[t] = <<>>
    /\ (pc[t] = "close" /\ wbuf[t] = <<>> /\ pc'[t] # "close") => file' = file
    /\ (InFlush(t) /\ pc'[t] # pc[t]) =>
         /\ pc'[t] \in {"close", "clear", AfterFlush(t)}
         /\ lst' = lst

C8_FlushThenEmpty == [][C8_Step]_vars

\* A flush is about to append an empty text to the file.
C8_Witness == \E t \in Threads : pc[t] = "close" /\ wbuf[t] = <<>>

\* C9 (start() is rejected when already running): a start() on a session on
\* which start() was invoked before does not go on to create a listener and
\* leaves running as it is.
C9_Step ==
  (pc["main"] = "ready" /\ "started" \in stdout) =>
    /\ pc'["main"] # "init"
    /\ running' = running

C9_StartRejected == [][C9_Step]_vars

\* C10 (Stopped is terminal): once stop() has completed on a session whose
\* listener has run and ended, nothing makes the session running again.
C10_Step ==
  (pc["main"] = "ready" /\ lst \notin {"none", "alive"} /\ "stopped" \in stdout) =>
    ~running'

C10_StoppedIsTerminal == [][C10_Step]_vars

\* C11 (Listener initialisation failure): when Listener(...) raises, running
\* was never set and no banner of the session start has been printed.
C11_Step ==
  (pc["main"] = "init" /\ pc'["main"] = "stop") =>
    /\ ~running
    /\ ~running'
    /\ "started" \notin stdout'

C11_ListenerInitFailure == [][C11_Step]_vars

\* The literal the table gives for a symbolic key, and "[" + the upper-cased
\* name + "]" for a key outside the table.
MappingTable(key) ==
  CASE key = Key_space -> <<" ">>
    [] key = Key_enter -> <<"\n">>
    [] key = Key_tab -> <<"\t">>
    [] key = Key_backspace -> <<"[","B","A","C","K","S","P","A","C","E","]">>
    [] key \in {Key_shift, Key_shift_l, Key_shift_r} -> <<"[","S","H","I","F","T","]">>
    [] key \in {Key_ctrl, Key_ctrl_l, Key_ctrl_r} -> <<"[","C","T","R","L","]">>
    [] key \in {Key_alt, Key_alt_l, Key_alt_r} -> <<"[","A","L","T","]">>
    [] key = Key_caps_lock -> <<"[","C","A","P","S","]">>
    [] key = Key_esc -> <<"[","E","S","C","]">>
    [] key = Key_up -> <<"[","U","P","]">>
    [] key = Key_down -> <<"[","D","O","W","N","]">>
    [] key = Key_left -> <<"[","L","E","F","T","]">>
    [] key = Key_right -> <<"[","R","I","G","H","T","]">>
    [] key = Key_delete -> <<"[","D","E","L","E","T","E","]">>
    [] OTHER -> <<"[">> \o upper(key.name) \o <<"]">>

\* C12 (Formatter mapping table): for every symbolic key format_key returns
\* the literal of the table, and "[" + upper-cased name + "]" for a symbolic
\* key that is not in the table.
C12_MappingTable ==
  (fmt_out # <<>> /\ fmt_key \in SymbolicKeys) =>
    /\ ~fmt_out[1].raised
    /\ fmt_out[1].val = MappingTable(fmt_key)

\* C13 (Formatter totality and character precedence): for every key
\* format_key returns, what it returns is a string, and for a key that
\* carries a character it is that character, unchanged.
C13_TotalityAndPrecedence ==
  fmt_out # <<>> =>
    /\ ~fmt_out[1].raised
    /\ fmt_out[1].val # None
    /\ fmt_key \in CharKeys => fmt_out[1].val = fmt_key.char

\* C14 (Key-press protocol and lock release): every on_press callback takes
\* the lock, appends exactly one entry, that of its event, to the end of
\* log_data, runs flush_to_file with the lock held, and frees the lock when
\* it ends, after a flush that succeeded as after one that failed.
C14_Step ==
  /\ nev' = nev + 1 =>
       /\ lock = "free"
       /\ lock' = "listener"
       /\ pc'["listener"] = "store"
  /\ (pc["listener"] = "store" /\ pc'["listener"] # "store") =>
       /\ Len(received') = Len(received) + 1
       /\ Last(received').id = nev
       /\ log_data' = Append(log_data, Last(received'))
       /\ pc'["listener"] = "open"
  /\ (InFlush("listener") /\ pc'["listener"] # pc["listener"]) =>
       /\ lock = "listener"
       /\ lock' = "listener"
       /\ pc'["listener"] \in {"close", "clear", "release"}
  /\ (pc["listener"] = "release" /\ pc'["listener"] # "release") =>
       /\ lock = "listener"
       /\ lock' = "free"
       /\ pc'["listener"] = "idle"

C14_KeyPressProtocol == [][C14_Step]_vars

\* C15 (Concurrent stop is safe): however stop() on the main thread
\* interleaves with an on_press callback, no entry is in the file twice
\* (as long as no write has failed), and every entry appended to the buffer
\* is in the file or still in the buffer.
C15_ConcurrentStopSafe ==
  /\ fails = 0 => NoRepeat(file)
  /\ \A i \in 1..Len(received) :
       Occurs(received[i], file) \/ Occurs(received[i], log_data)

\* C16 (Conservation invariant): with the operations executed one at a time,
\* in every state in which no flush is in progress the file followed by
\* log_data is the sequence of the entries appended so far, in arrival order.
C16_Conservation ==
  (\A t \in Threads : ~InFlush(t)) => file \o log_data = received

\* C17 (Retry does not duplicate): a flush that fails, at open or at the
\* close that pushes the text to the file, leaves the file as it was, and no
\* entry is in the file twice after the retained buffer was written again.
C17_FailedFlushStep ==
  \A t \in Threads :
    (pc[t] \in {"open", "close"} /\ pc'[t] = AfterFlush(t)) => file' = file

C17_RetryNoDuplicate == [][C17_FailedFlushStep]_vars /\ [](NoRepeat(file))

====
